---- MODULE Spec2Model ----
(***************************************************************************)
(* Response Rate Limiter (src/src/bin/auth/rrl/rrl.cc).                    *)
(*                                                                         *)
(* ResponseLimiter::check and the ResponseLimiterImpl constructor are      *)
(* translated from rrl.cc.  RRLKey, RRLTable, RRLEntry, RRLRate and        *)
(* RRLEntry::TimestampBases are declared in headers that are not part of   *)
(* the source tree at hand; they are modelled from the design document     *)
(* (spec.md sections 4.1 - 4.5) and marked so in MODEL_MAP.json.           *)
(*                                                                         *)
(* The pools of a DHCP subnet (src/src/lib/dhcpsrv/subnet.cc, pool.cc) are *)
(* modelled at the end, in a variable of their own.                        *)
(***************************************************************************)
EXTENDS Integers, Sequences, FiniteSets, TLC

VARIABLES
    params,     \* the constructor's arguments (the const members of impl_)
    alive,      \* TRUE iff the constructor returned (did not throw)
    ipv4_mask_, \* impl_->ipv4_mask_, as 4 bytes in network order
    table_,     \* impl_->table_
    ts_bases_,  \* impl_->ts_bases_
    clock,      \* the wall clock the caller reads `now` from
    calls,      \* number of check() calls charged so far (bounds the model)
    last,       \* the most recent check() call: verdict, key, path taken
    okhist,     \* history of the watched key: times of its OK verdicts,
                \* time of its last call, time and verdict of every call
    subnet_     \* a Subnet4 or Subnet6: prefix_, prefix_len_, pools_, and the
                \* last call made on it (<<>> where the limiter is modelled)

vars == <<params, alive, ipv4_mask_, table_, ts_bases_, clock, calls, last, okhist,
          subnet_>>

---------------------------------------------------------------------------
(* Bounds of the model *)

MaxCalls == 3
MaxScenarioCalls == 10
TcpCalls == 100
MaxTicks == 2
MaxInputCalls == 2
StartTime == 5000

---------------------------------------------------------------------------
(* Verdicts, response types, rcodes *)

RRL_OK == "OK"
RRL_DROP == "DROP"
RRL_SLIP == "SLIP"

RESPONSE_QUERY == "QUERY"
RESPONSE_NXDOMAIN == "NXDOMAIN"
RESPONSE_ERROR == "ERROR"

\* dns::Rcode values (RFC 1035 numbering)
Rcode_NOERROR == "NOERROR"
Rcode_SERVFAIL == "SERVFAIL"
Rcode_NXDOMAIN == "NXDOMAIN"
Rcode_FORMERR == "FORMERR"
Rcode_REFUSED == "REFUSED"
\* a code with no assigned meaning (the largest extended rcode, 4095)
Rcode_Unassigned == "RCODE4095"

Rcodes ==
    {Rcode_NOERROR, Rcode_NXDOMAIN, Rcode_SERVFAIL, Rcode_FORMERR,
     Rcode_REFUSED, Rcode_Unassigned}

\* A mutant of convertRcode: NXDOMAIN is not told apart from NOERROR.
convertRcodeNoNx(rcode) ==
    IF rcode = Rcode_NOERROR \/ rcode = Rcode_NXDOMAIN THEN RESPONSE_QUERY
    ELSE RESPONSE_ERROR

\* A mutant of convertRcode: every rcode but NOERROR counts as NXDOMAIN.
convertRcodeErrorAsNx(rcode) ==
    IF rcode = Rcode_NOERROR THEN RESPONSE_QUERY ELSE RESPONSE_NXDOMAIN

\* A mutant of convertRcode: the test for NOERROR is missing.
convertRcodeQueryAsError(rcode) ==
    IF rcode = Rcode_NXDOMAIN THEN RESPONSE_NXDOMAIN ELSE RESPONSE_ERROR

convertRcode(rcode) ==
    IF rcode = Rcode_NOERROR THEN RESPONSE_QUERY
    ELSE IF rcode = Rcode_NXDOMAIN THEN RESPONSE_NXDOMAIN
    ELSE RESPONSE_ERROR

---------------------------------------------------------------------------
(* Bytes and masks *)

Max(a, b) == IF a >= b THEN a ELSE b
Min(a, b) == IF a <= b THEN a ELSE b

RECURSIVE Pow2(_)
Pow2(n) == IF n = 0 THEN 1 ELSE 2 * Pow2(n - 1)

\* bitwise AND of two bytes, bit by bit
BitAnd8(a, b) ==
    (a % 2) * (b % 2)
    + 2 * ((a \div 2) % 2) * ((b \div 2) % 2)
    + 4 * ((a \div 4) % 2) * ((b \div 4) % 2)
    + 8 * ((a \div 8) % 2) * ((b \div 8) % 2)
    + 16 * ((a \div 16) % 2) * ((b \div 16) % 2)
    + 32 * ((a \div 32) % 2) * ((b \div 32) % 2)
    + 64 * ((a \div 64) % 2) * ((b \div 64) % 2)
    + 128 * ((a \div 128) % 2) * ((b \div 128) % 2)

\* the while loop of setMask: one 0xff per 8 bits while plen > 8
RECURSIVE MaskFullBytes(_)
MaskFullBytes(plen) ==
    IF plen > 8 THEN <<255>> \o MaskFullBytes(plen - 8) ELSE <<>>

RECURSIVE MaskRest(_)
MaskRest(plen) == IF plen > 8 THEN MaskRest(plen - 8) ELSE plen

Zeros(n) == [i \in 1..n |-> 0]

\* buf of setMask before it is padded: the 0xff bytes, then the byte
\* (uint8_t)(0xff << (8 - plen)) for the bits left over
MaskBuf(plen) ==
    LET rest == MaskRest(plen)
    IN  MaskFullBytes(plen) \o
        (IF rest > 0 THEN <<(255 * Pow2(8 - rest)) % 256>> ELSE <<>>)

\* A mutant of setMask: the bits left over are set from the low end.
setMaskLowBits(mask_len, plen) ==
    LET rest == MaskRest(plen)
        buf == MaskFullBytes(plen) \o
               (IF rest > 0 THEN <<Pow2(rest) - 1>> ELSE <<>>)
    IN  buf \o Zeros(mask_len - Len(buf))

\* setMask(mask, mask_len, plen): the mask_len bytes written to `mask`.
\* The value "assert" stands for a failed assertion (buf.size() > mask_len).
setMask(mask_len, plen) ==
    LET buf == MaskBuf(plen)
    IN  IF Len(buf) > mask_len THEN "assert"
        ELSE buf \o Zeros(mask_len - Len(buf))

ApplyMask(addr, mask) == [i \in 1..Len(addr) |-> BitAnd8(addr[i], mask[i])]

---------------------------------------------------------------------------
(* Client addresses, names *)

\* 192.0.2.1 and 192.0.2.254 share a /24; 198.51.100.7 is in another one.
Addr_A1 == <<192, 0, 2, 1>>
Addr_A2 == <<192, 0, 2, 254>>
Addr_B == <<198, 51, 100, 7>>

\* a.example as a label sequence of ASCII codes
Name_a_example == << <<97>>, <<101, 120, 97, 109, 112, 108, 101>> >>

\* A.EXAMPLE: a.example in upper case
Name_A_EXAMPLE == << <<65>>, <<69, 88, 65, 77, 80, 76, 69>> >>

\* B.Example, with upper-case letters
Name_b_example == << <<66>>, <<69, 120, 97, 109, 112, 108, 101>> >>

NoName == <<>>

LowerChar(c) == IF c >= 65 /\ c <= 90 THEN c + 32 ELSE c

CanonName(name) == [i \in 1..Len(name) |-> [j \in 1..Len(name[i]) |-> LowerChar(name[i][j])]]

RRClass_IN == "IN"
RRClass_CH == "CH"
RRType_A == "A"
RRType_AAAA == "AAAA"

---------------------------------------------------------------------------
(* RRLKey: the fingerprint under which responses are counted (spec 4.1) *)

\* The key holds the masked client address, the response type, class, type
\* and the lower-cased owner name; ERROR responses carry no name.
RRLKey(client_addr, qtype, qname, qclass, resp_type, ipv4_mask) ==
    [ip |-> ApplyMask(client_addr, ipv4_mask),
     rtype |-> resp_type,
     qclass |-> qclass,
     qtype |-> qtype,
     qname |-> IF resp_type = RESPONSE_ERROR THEN NoName ELSE CanonName(qname)]

\* the numeric code of a response type, class or type, as hashed
CodeOf(x) ==
    CASE x = RESPONSE_QUERY -> 0
      [] x = RESPONSE_NXDOMAIN -> 1
      [] x = RESPONSE_ERROR -> 2
      [] x = RRClass_IN -> 1
      [] x = RRClass_CH -> 3
      [] x = RRType_A -> 1
      [] x = RRType_AAAA -> 28

\* a name in wire format: every label preceded by its length
RECURSIVE NameBytes(_)
NameBytes(name) ==
    IF name = <<>> THEN <<>>
    ELSE <<Len(Head(name))>> \o Head(name) \o NameBytes(Tail(name))

\* the canonical form of a key, byte by byte
KeyBytes(key) ==
    key.ip \o <<CodeOf(key.rtype), CodeOf(key.qclass), CodeOf(key.qtype)>>
           \o NameBytes(key.qname)

\* boost::hash_combine(seed, v), which mixes v into seed; the mixing is
\* kept to 16 bits and additive
HashCombine(seed, v) == (seed * 31 + v + 40503) % 65536

\* getHashSeed(now): now and the process id (here 4242) combined into 0
getHashSeed(now) == HashCombine(HashCombine(0, now), 4242)

\* impl_->hash_seed_(getHashSeed(now)), now the time of construction
hash_seed_ == getHashSeed(StartTime)

RECURSIVE HashBytes(_, _)
HashBytes(h, bytes) ==
    IF bytes = <<>> THEN h
    ELSE HashBytes(HashCombine(h, Head(bytes)), Tail(bytes))

\* the hash of a key: every field of the canonical form combined with the
\* seed
KeyHash(key, seed) == HashBytes(seed, KeyBytes(key))

---------------------------------------------------------------------------
(* RRLRate (spec 4.3) *)

getRate(rates, resp_type) ==
    IF resp_type = RESPONSE_QUERY THEN rates[1]
    ELSE IF resp_type = RESPONSE_NXDOMAIN THEN rates[2]
    ELSE rates[3]

---------------------------------------------------------------------------
(* RRLEntry::TimestampBases (spec 4.2) *)

MAX_OFFSET == 4095
NUM_BASES == 4
BaseIds == 0..(NUM_BASES - 1)

\* The pool right after construction at `now`: one base, in slot 0.
TimestampBases(now) ==
    [bases |-> <<[sec |-> now, id |-> 0]>>,
     epochs |-> [i \in BaseIds |-> IF i = 0 THEN 1 ELSE 0]]

\* A mutant of BaseFits: every base is taken to fit.
BaseFitsAny(b, now) == TRUE

BaseFits(b, now) == b.sec >= now - MAX_OFFSET /\ b.sec <= now

\* current_base(now): the pool afterwards and the base handed out.
getCurrentBase(pool, now) ==
    LET n == Len(pool.bases)
        fits == {i \in 1..n : BaseFits(pool.bases[i], now)}
    IN  IF fits # {}
        THEN LET i == CHOOSE i \in fits : \A j \in fits : j <= i
             IN  [pool |-> pool,
                  sec |-> pool.bases[i].sec,
                  id |-> pool.bases[i].id,
                  epoch |-> pool.epochs[pool.bases[i].id]]
        ELSE IF n < NUM_BASES
        THEN LET used == {pool.bases[i].id : i \in 1..n}
                 id == CHOOSE i \in BaseIds \ used : \A j \in BaseIds \ used : i <= j
                 ep == pool.epochs[id] + 1
             IN  [pool |-> [bases |-> Append(pool.bases, [sec |-> now, id |-> id]),
                            epochs |-> [pool.epochs EXCEPT ![id] = ep]],
                  sec |-> now, id |-> id, epoch |-> ep]
        ELSE LET o == CHOOSE i \in 1..n : \A j \in 1..n :
                          pool.bases[i].sec < pool.bases[j].sec
                          \/ (pool.bases[i].sec = pool.bases[j].sec /\ i <= j)
                 id == pool.bases[o].id
                 ep == pool.epochs[id] + 1
                 kept == [i \in 1..(n - 1) |->
                            IF i < o THEN pool.bases[i] ELSE pool.bases[i + 1]]
             IN  [pool |-> [bases |-> Append(kept, [sec |-> now, id |-> id]),
                            epochs |-> [pool.epochs EXCEPT ![id] = ep]],
                  sec |-> now, id |-> id, epoch |-> ep]

\* base_second(id); -1 when no base holds that id
BaseSecond(pool, id) ==
    LET at == {i \in 1..Len(pool.bases) : pool.bases[i].id = id}
    IN  IF at = {} THEN -1 ELSE pool.bases[CHOOSE i \in at : TRUE].sec

\* offset(entry, now): [stale |-> TRUE], or now - base_second(entry.base_id)
Offset(pool, e, now) ==
    LET sec == BaseSecond(pool, e.base_id)
    IN  IF sec = -1 \/ e.epoch # pool.epochs[e.base_id] \/ now - sec > MAX_OFFSET
        THEN [stale |-> TRUE, off |-> 0]
        ELSE [stale |-> FALSE, off |-> now - sec]

---------------------------------------------------------------------------
(* RRLEntry (spec 4.4) *)

\* A newly initialised entry (get_entry step 3); hash is the cached hash of
\* the key and slot, set by get_entry, names the entry object that holds it
\* (0: none yet).  The fields used (the wall second of the last response
\* charged to the entry), okts (times of
\* the OK verdicts charged to the entry), runv (the verdicts of the current
\* run of penalized responses), clients (the clients charged to it), names
\* (the query names charged to it) and reset (the last call found the entry
\* stale) are history kept for the properties, not program state.
NewEntry(key, rates, base) ==
    [key |-> key,
     responses |-> getRate(rates, key.rtype),
     base_id |-> base.id,
     epoch |-> base.epoch,
     last_used_offset |-> 0,
     slip_cnt |-> 0,
     logging |-> FALSE,
     hash |-> KeyHash(key, hash_seed_),
     slot |-> 0,
     used |-> -1,
     okts |-> <<>>,
     runv |-> <<>>,
     clients |-> {},
     names |-> {},
     reset |-> FALSE]

\* A mutant of Regenerate: the credit is not capped at one second's worth.
RegenerateUncapped(rate, responses, elapsed) == responses + rate * elapsed

\* update_balance step 3: the credit regenerated over `elapsed` seconds,
\* capped at one second's worth
Regenerate(rate, responses, elapsed) == Min(rate, responses + rate * elapsed)

\* A mutant of Reinitialize: the response is charged to the fresh balance.
ReinitializeCharged(e, rate, b) ==
    [e EXCEPT !.responses = rate - 1,
              !.base_id = b.id,
              !.epoch = b.epoch,
              !.last_used_offset = 0,
              !.logging = FALSE,
              !.slip_cnt = 0]

\* update_balance step 1, the entry found stale: a full balance against the
\* current base b, the logging flags and the slip counter cleared
Reinitialize(e, rate, b) ==
    [e EXCEPT !.responses = rate,
              !.base_id = b.id,
              !.epoch = b.epoch,
              !.last_used_offset = 0,
              !.logging = FALSE,
              !.slip_cnt = 0]

\* A mutant of updateBalance: an OK verdict leaves the slip counter as it is.
updateBalanceKeepsCount(e, pool, rates, slip, now, window) ==
    LET rate == getRate(rates, e.key.rtype)
        o == Offset(pool, e, now)
    IN  IF rate = 0
        THEN [entry |-> e, pool |-> pool, result |-> RRL_OK, stale |-> FALSE,
              charged |-> e.responses]
        ELSE IF o.stale
        THEN LET b == getCurrentBase(pool, now)
             IN  [entry |-> Reinitialize(e, rate, b),
                  pool |-> b.pool, result |-> RRL_OK, stale |-> TRUE,
                  charged |-> rate]
        ELSE LET elapsed == Max(0, o.off - e.last_used_offset)
                 regen == Regenerate(rate, e.responses, elapsed)
                 charged == regen - 1
                 e1 == [e EXCEPT !.last_used_offset = o.off]
             IN  IF charged >= 0
                 THEN [entry |-> [e1 EXCEPT !.responses = charged],
                       pool |-> pool, result |-> RRL_OK, stale |-> FALSE,
                       charged |-> charged]
                 ELSE LET capped == Max(charged, -(window * rate))
                          cnt == IF slip > 0 THEN (e.slip_cnt + 1) % slip
                                 ELSE e.slip_cnt
                      IN  [entry |-> [e1 EXCEPT !.responses = capped,
                                                !.slip_cnt = cnt],
                           pool |-> pool,
                           result |-> IF slip > 0 /\ cnt = 0 THEN RRL_SLIP
                                      ELSE RRL_DROP,
                           stale |-> FALSE,
                           charged |-> charged]

\* update_balance(bases, rates, slip, qname_size, now, window): the entry and
\* the pool afterwards, the verdict, whether the entry was found stale, and
\* the balance after the charge, before the debt cap is applied.
updateBalance(e, pool, rates, slip, now, window) ==
    LET rate == getRate(rates, e.key.rtype)
        o == Offset(pool, e, now)
    IN  IF rate = 0
        THEN [entry |-> e, pool |-> pool, result |-> RRL_OK, stale |-> FALSE,
              charged |-> e.responses]
        ELSE IF o.stale
        THEN LET b == getCurrentBase(pool, now)
             IN  [entry |-> Reinitialize(e, rate, b),
                  pool |-> b.pool, result |-> RRL_OK, stale |-> TRUE,
                  charged |-> rate]
        ELSE LET elapsed == Max(0, o.off - e.last_used_offset)
                 regen == Regenerate(rate, e.responses, elapsed)
                 charged == regen - 1
                 e1 == [e EXCEPT !.last_used_offset = o.off]
             IN  IF charged >= 0
                 THEN [entry |-> [e1 EXCEPT !.responses = charged,
                                            !.slip_cnt = 0],
                       pool |-> pool, result |-> RRL_OK, stale |-> FALSE,
                       charged |-> charged]
                 ELSE LET capped == Max(charged, -(window * rate))
                          cnt == IF slip > 0 THEN (e.slip_cnt + 1) % slip
                                 ELSE e.slip_cnt
                      IN  [entry |-> [e1 EXCEPT !.responses = capped,
                                                !.slip_cnt = cnt],
                           pool |-> pool,
                           result |-> IF slip > 0 /\ cnt = 0 THEN RRL_SLIP
                                      ELSE RRL_DROP,
                           stale |-> FALSE,
                           charged |-> charged]

---------------------------------------------------------------------------
(* RRLTable (spec 4.5) *)

SCAN_LIMIT == 64

\* RRLTable(max_table_size): no entries and no hash chains yet.  lru holds
\* the entries in use, most recently used first; free the entry objects on
\* the free list; chains[b] the entry objects linked into hash chain b;
\* capacity the number of entry objects allocated.
RRLTable(max_table_size) ==
    [lru |-> <<>>, free |-> <<>>, chains |-> <<>>, capacity |-> 0,
     max_capacity |-> max_table_size]

\* expandEntries(count_to_add): pre-allocates entries onto the free list
expandEntries(tbl, count_to_add) ==
    [tbl EXCEPT !.free = @ \o [i \in 1..count_to_add |-> tbl.capacity + i],
                !.capacity = @ + count_to_add]

\* the chain a hash selects among `bins` chains (hash & mask, bins a power
\* of two)
BinOf(hash, bins) == (hash % bins) + 1

\* the chains of a table of `bins` buckets holding the entries of lru
Rehash(lru, bins) ==
    [b \in 1..bins |->
        LET here == SelectSeq(lru, LAMBDA e : BinOf(e.hash, bins) = b)
        IN  [i \in 1..Len(here) |-> here[i].slot]]

\* expand(now): the chain array grows to one chain per allocated entry and
\* every entry in use is linked into the chain of its cached hash; it never
\* shrinks.
expand(tbl) ==
    IF tbl.capacity <= Len(tbl.chains) THEN tbl
    ELSE [tbl EXCEPT !.chains = Rehash(tbl.lru, tbl.capacity)]

\* A mutant of Grow: entries are added and the chain array keeps its size.
GrowEntriesOnly(tbl) ==
    expandEntries(tbl, Min(tbl.max_capacity, 2 * tbl.capacity) - tbl.capacity)

\* Expansion on a full table: the capacity doubles, up to max_capacity.
Grow(tbl) ==
    expand(expandEntries(tbl, Min(tbl.max_capacity, 2 * tbl.capacity)
                                - tbl.capacity))

\* the number of entries in use
getEntryCount(tbl) == Len(tbl.lru)

RemoveAt(s, i) == [j \in 1..(Len(s) - 1) |-> IF j < i THEN s[j] ELSE s[j + 1]]

\* A mutant of Promote: an entry that is hit stays where it is.
PromoteNot(lru, i) == lru

\* get_entry step 1: on a hit the entry moves to the LRU head
Promote(lru, i) == <<lru[i]>> \o RemoveAt(lru, i)

\* the chain walk: the entries of the chain selected by the key's hash
\* that hold the key
FindKey(tbl, key) ==
    IF tbl.chains = <<>> THEN {}
    ELSE UNION {{i \in 1..Len(tbl.lru) :
                    /\ tbl.lru[i].key = key
                    /\ \E j \in 1..Len(chain) : chain[j] = tbl.lru[i].slot} :
                chain \in {tbl.chains[BinOf(KeyHash(key, hash_seed_),
                                            Len(tbl.chains))]}}

\* A mutant of Aged: the LRU tail is taken whether it has recovered or not.
AgedAlways(e, pool, now, window) == TRUE

\* the LRU tail has had the whole window to recover
Aged(e, pool, now, window) ==
    LET o == Offset(pool, e, now)
    IN  o.stale \/ o.off - e.last_used_offset > window

\* the entry to steal: scanning back from the LRU tail over at most
\* SCAN_LIMIT entries, the oldest one not marked logging; else the tail
StealVictim(lru) ==
    LET n == Len(lru)
        cands == {i \in 1..n : i > n - SCAN_LIMIT /\ ~lru[i].logging}
    IN  IF cands = {} THEN n
        ELSE CHOOSE i \in cands : \A j \in cands : j <= i

\* the entry object e linked at the head of the chain of its hash
Link(chains, e) ==
    [chains EXCEPT ![BinOf(e.hash, Len(chains))] = <<e.slot>> \o @]

\* the entry object e taken out of the chain of its hash
Unlink(chains, e) ==
    [chains EXCEPT ![BinOf(e.hash, Len(chains))] =
                        SelectSeq(@, LAMBDA s : s # e.slot)]

\* a new entry in the first object of the free list, at the head of the
\* LRU and of its chain
Allocate(tbl, fresh) ==
    LET e == [fresh EXCEPT !.slot = Head(tbl.free)]
    IN  [tbl EXCEPT !.lru = <<e>> \o @,
                    !.free = Tail(@),
                    !.chains = Link(@, e)]

\* A mutant of Recycle: the recycled entry stays in its old chain.
RecycleNoUnlink(tbl, i, fresh) ==
    LET e == [fresh EXCEPT !.slot = tbl.lru[i].slot]
    IN  [tbl EXCEPT !.lru = <<e>> \o RemoveAt(@, i),
                    !.chains = Link(@, e)]

\* a new entry in the object of the i-th entry of the LRU, which leaves
\* the LRU and its chain
Recycle(tbl, i, fresh) ==
    LET e == [fresh EXCEPT !.slot = tbl.lru[i].slot]
    IN  [tbl EXCEPT !.lru = <<e>> \o RemoveAt(@, i),
                    !.chains = Link(Unlink(@, tbl.lru[i]), e)]

\* get_entry(key, bases, rates, now, window): the table and pool afterwards
\* with the entry at the LRU head; found = FALSE when no entry can be had.
getEntry(tbl, key, pool, rates, now, window) ==
    LET hit == FindKey(tbl, key)
        n == Len(tbl.lru)
        b == getCurrentBase(pool, now)
        fresh == NewEntry(key, rates, b)
    IN  IF hit # {}
        THEN LET i == CHOOSE i \in hit : TRUE
             IN  [table |-> [tbl EXCEPT !.lru = Promote(@, i)],
                  pool |-> pool, found |-> TRUE, path |-> "hit"]
        ELSE IF tbl.free # <<>>
        THEN [table |-> Allocate(tbl, fresh),
              pool |-> b.pool, found |-> TRUE, path |-> "free"]
        ELSE IF n > 0 /\ Aged(tbl.lru[n], pool, now, window)
        THEN [table |-> Recycle(tbl, n, fresh),
              pool |-> b.pool, found |-> TRUE, path |-> "aged"]
        ELSE IF tbl.capacity < tbl.max_capacity /\ Grow(tbl).free # <<>>
        THEN [table |-> Allocate(Grow(tbl), fresh),
              pool |-> b.pool, found |-> TRUE, path |-> "grow"]
        ELSE IF n > 0
        THEN [table |-> Recycle(tbl, StealVictim(tbl.lru), fresh),
              pool |-> b.pool, found |-> TRUE, path |-> "steal"]
        ELSE [table |-> tbl, pool |-> pool, found |-> FALSE, path |-> "none"]

\* timestampBaseUpdated(id): the pool's notice that base id was recycled;
\* the table leaves its entries to be found stale when next touched
timestampBaseUpdated(tbl, id) == tbl

\* A mutant of Notified: the entries of a recycled id are moved to the
\* id's new epoch.
NotifiedRebinds(tbl, pool, pool2) ==
    [tbl EXCEPT !.lru = [i \in DOMAIN tbl.lru |->
        [tbl.lru[i] EXCEPT !.epoch = pool2.epochs[tbl.lru[i].base_id]]]]

\* the table after the notices of the pool for the ids recycled between
\* pool and pool2 (boost::bind(&RRLTable::timestampBaseUpdated, &table_, _1))
Notified(tbl, pool, pool2) ==
    LET ids == {i \in BaseIds : /\ pool2.epochs[i] # pool.epochs[i]
                                /\ BaseSecond(pool, i) # -1}
    IN  IF ids = {} THEN tbl
        ELSE timestampBaseUpdated(tbl, CHOOSE i \in ids : TRUE)

---------------------------------------------------------------------------
(* ResponseLimiterImpl: construction *)

\* max_table_size < min_table_size with a size_t on the left and an int on
\* the right: the int is converted to size_t, so a negative min_table_size
\* becomes 2^64 + min_table_size, above every max_table_size of the model.
SizeLessThanInt(max_table_size, min_table_size) ==
    IF min_table_size < 0 THEN TRUE ELSE max_table_size < min_table_size

\* A mutant of CtorThrows: max_table_size is not compared with min_table_size.
CtorThrowsNoSizeCheck(p) ==
    \/ p.ipv4_prefixlen < 0 \/ p.ipv4_prefixlen > 32
    \/ p.ipv6_prefixlen < 0 \/ p.ipv6_prefixlen > 128

\* The constructor throws InvalidParameter.  max_table_size is a size_t and
\* min_table_size an int: the comparison converts min_table_size to size_t.
CtorThrows(p) ==
    \/ p.ipv4_prefixlen < 0 \/ p.ipv4_prefixlen > 32
    \/ p.ipv6_prefixlen < 0 \/ p.ipv6_prefixlen > 128
    \/ SizeLessThanInt(p.max_table_size, p.min_table_size)

\* A mutant of CtorTable: table_.expand(now) is left out.
CtorTableNoExpand(p) ==
    expandEntries(RRLTable(p.max_table_size), p.min_table_size)

\* table_(max_table_size); table_.expandEntries(min_table_size);
\* table_.expand(now)
CtorTable(p) ==
    expand(expandEntries(RRLTable(p.max_table_size), p.min_table_size))

\* setMask(&ipv4_mask_, sizeof(ipv4_mask_), ipv4_prefixlen_)
CtorMask(p) == setMask(4, p.ipv4_prefixlen)

---------------------------------------------------------------------------
(* ResponseLimiter::check *)

\* A mutant of TcpBypass: TCP responses are limited like UDP ones.
TcpBypassNever(is_tcp) == FALSE

\* if (is_tcp) return (RRL_OK);
TcpBypass(is_tcp) == is_tcp

\* A mutant of CheckKey: the client address enters the key unmasked.
CheckKeyUnmasked(client_addr, qtype, qname, qclass, resp_type) ==
    RRLKey(client_addr, qtype, qname, qclass, resp_type, <<255, 255, 255, 255>>)

\* RRLKey(client_addr, qtype, qname, qclass, resp_type, impl_->ipv4_mask_, ...)
CheckKey(client_addr, qtype, qname, qclass, resp_type) ==
    RRLKey(client_addr, qtype, qname, qclass, resp_type, ipv4_mask_)

\* A mutant of CheckUpdateBalance: slip_ and window_ change places.
CheckUpdateBalanceSwapped(e, pool, now) ==
    updateBalance(e, pool, params.rates, params.window, now, params.slip)

\* A mutant of CheckUpdateBalance: the literal 0 and now change places.
CheckUpdateBalanceNowZero(e, pool, now) ==
    updateBalance(e, pool, params.rates, params.slip, 0, params.window)

\* entry->updateBalance(impl_->ts_bases_, impl_->rates_, impl_->slip_, 0,
\*                      now, impl_->window_)
CheckUpdateBalance(e, pool, now) ==
    updateBalance(e, pool, params.rates, params.slip, now, params.window)

\* A mutant of CheckVerdict: with log_only set the response is let through.
CheckVerdictLogOnly(result) == IF params.log_only THEN RRL_OK ELSE result

\* A mutant of CheckVerdict: every verdict is returned as RRL_OK.
CheckVerdictAlwaysOk(result) == RRL_OK

\* if (result == RRL_OK) return (RRL_OK); ... return (result);
CheckVerdict(result) == IF result = RRL_OK THEN RRL_OK ELSE result

\* the one element of a singleton set; {F(x) : x \in {e}} computes e once
The(S) == CHOOSE x \in S : TRUE

\* impl_->table_.getEntry(key, impl_->ts_bases_, impl_->rates_, now,
\*                        impl_->window_)
checkGetEntry(tbl, pool, key, now) ==
    getEntry(tbl, key, pool, params.rates, now, params.window)

\* assert(entry); the balance update of the entry found; the verdict
checkEntry(g, now) ==
    IF ~g.found
    THEN [table |-> g.table, pool |-> g.pool, result |-> "assert",
          path |-> g.path, stale |-> FALSE, charged |-> 0, before |-> 0]
    ELSE The({[table |-> [g.table EXCEPT !.lru = <<u.entry>> \o Tail(@)],
               pool |-> u.pool, result |-> CheckVerdict(u.result),
               path |-> g.path, stale |-> u.stale, charged |-> u.charged,
               before |-> Head(g.table.lru).responses] :
                u \in {CheckUpdateBalance(e, g.pool, now) :
                         e \in {Head(g.table.lru)}}})

\* check() on the limiter state (tbl, pool): the state afterwards and the
\* verdict ("assert" when assert(entry) fails), with the path taken.
check(tbl, pool, client_addr, is_tcp, qclass, qtype, qname, rcode, now) ==
    IF TcpBypass(is_tcp)
    THEN [table |-> tbl, pool |-> pool, result |-> RRL_OK,
          path |-> "tcp", stale |-> FALSE, charged |-> 0, before |-> 0]
    ELSE The({checkEntry(g, now) :
                g \in {checkGetEntry(tbl, pool, key, now) :
                         key \in {CheckKey(client_addr, qtype, qname, qclass,
                                           convertRcode(rcode))}}})

---------------------------------------------------------------------------
(* The state machine *)

Params(max, min, rq, rn, re, w, s) ==
    [max_table_size |-> max, min_table_size |-> min, rates |-> <<rq, rn, re>>,
     window |-> w, slip |-> s, ipv4_prefixlen |-> 24, ipv6_prefixlen |-> 56,
     log_only |-> FALSE]

\* The configurations explored: a one-entry table (every miss on a full
\* table steals), tables that grow (to twice their size, and to a maximum
\* below that), a zero rate (in a full-grown table and in one that can
\* grow), slip 0, 1 and 2, and one the constructor rejects (max_table_size <
\* min_table_size).
ParamSet ==
    {Params(1, 1, 1, 1, 1, 1, 2),
     Params(2, 1, 2, 1, 1, 1, 1),
     Params(3, 2, 1, 1, 1, 1, 1),
     Params(2, 2, 0, 1, 1, 2, 0),
     Params(2, 1, 0, 1, 1, 1, 0),
     Params(1, 2, 1, 1, 1, 1, 2)}

\* The configuration of the end-to-end scenarios (spec.md section 8), with
\* every slip from 0 to 3.
ScenarioParamSet ==
    {[max_table_size |-> 1024, min_table_size |-> 64, rates |-> <<5, 5, 5>>,
      window |-> 15, slip |-> s, ipv4_prefixlen |-> 24, ipv6_prefixlen |-> 56,
      log_only |-> FALSE] : s \in 0..3}

NoCall ==
    [is_tcp |-> FALSE, rcode |-> "", key |-> <<>>, input |-> <<>>,
     result |-> "", path |-> "",
     stale |-> FALSE, charged |-> 0, before |-> 0, gap |-> -1]

\* The key whose history okhist keeps.
WatchedKey ==
    RRLKey(Addr_A1, RRType_A, Name_a_example, RRClass_IN, RESPONSE_QUERY,
           setMask(4, 24))

InitWith(p) ==
    /\ params = p
    /\ alive = ~CtorThrows(p)
    /\ ipv4_mask_ = CtorMask(p)
    /\ table_ = CtorTable(p)
    /\ ts_bases_ = TimestampBases(StartTime)
    /\ clock = StartTime
    /\ calls = 0
    /\ last = NoCall
    /\ okhist = [oks |-> <<>>, lastcall |-> -1, hist |-> <<>>]
    /\ subnet_ = <<>>

Init == \E p \in ParamSet : InitWith(p)

InitScenario == \E p \in ScenarioParamSet : InitWith(p)

\* The caller's clock advances by d seconds.
Tick(d) ==
    /\ alive
    /\ clock' = clock + d
    /\ UNCHANGED <<params, alive, ipv4_mask_, table_, ts_bases_, calls, last, okhist, subnet_>>

\* the history fields of the LRU head after a verdict for client_addr, qname
Recorded(tbl, client_addr, qname, result, stale, now) ==
    LET e == Head(tbl.lru)
        h == [e EXCEPT !.used = now,
                       !.clients = @ \cup {client_addr},
                       !.names = @ \cup {qname},
                       !.reset = stale,
                       !.okts = IF stale THEN <<>>
                                ELSE IF result = RRL_OK THEN Append(@, now)
                                ELSE @,
                       !.runv = IF result = RRL_OK THEN <<>>
                                ELSE Append(@, result)]
    IN  [tbl EXCEPT !.lru = <<h>> \o Tail(@)]

\* One call of check() with now = clock.  counted: a call over TCP counts
\* against the bound on calls; keyed: `last` records the key of a call over
\* TCP too.
CheckQ(client_addr, is_tcp, qclass, qtype, qname, rcode, counted, keyed) ==
    /\ alive
    /\ last.result # "assert"
    /\ \E r \in {check(table_, ts_bases_, client_addr, is_tcp,
                    qclass, qtype, qname, rcode, clock)},
       key \in {RRLKey(client_addr, qtype, qname, qclass,
                       convertRcode(rcode), ipv4_mask_)} :
      \E watched \in {~is_tcp /\ key = WatchedKey} :
        /\ table_' = Notified(IF r.path \in {"tcp", "none"} THEN r.table
                              ELSE Recorded(r.table, client_addr, qname,
                                            r.result, r.stale, clock),
                              ts_bases_, r.pool)
        /\ ts_bases_' = r.pool
        /\ last' = [is_tcp |-> is_tcp,
                    rcode |-> IF is_tcp /\ ~keyed THEN "" ELSE rcode,
                    key |-> IF is_tcp /\ ~keyed THEN <<>> ELSE key,
                    input |-> IF is_tcp /\ ~keyed THEN <<>>
                              ELSE <<client_addr, qclass, qtype, qname>>,
                    result |-> r.result, path |-> r.path,
                    stale |-> r.stale, charged |-> r.charged,
                    before |-> r.before,
                    gap |-> IF watched /\ okhist.lastcall >= 0
                            THEN clock - okhist.lastcall ELSE -1]
        /\ okhist' = IF watched
                     THEN [oks |-> IF r.result = RRL_OK
                                   THEN Append(okhist.oks, clock)
                                   ELSE okhist.oks,
                           lastcall |-> clock,
                           hist |-> Append(okhist.hist,
                                           [t |-> clock, v |-> r.result])]
                     ELSE okhist
        /\ calls' = IF is_tcp /\ ~counted THEN calls ELSE calls + 1
        /\ UNCHANGED <<params, alive, ipv4_mask_, clock, subnet_>>

\* a call for a type A record of class IN
Check(client_addr, is_tcp, qname, rcode, counted, keyed) ==
    CheckQ(client_addr, is_tcp, RRClass_IN, RRType_A, qname, rcode,
           counted, keyed)

(* The general specification: small tables, two prefixes, two categories. *)

CheckUdp ==
    /\ calls < MaxCalls
    /\ \E a \in {Addr_A1, Addr_B}, rc \in {Rcode_NOERROR, Rcode_SERVFAIL} :
          Check(a, FALSE, Name_a_example, rc, TRUE, TRUE)

CheckTcp ==
    \E a \in {Addr_A1, Addr_B}, rc \in {Rcode_NOERROR, Rcode_SERVFAIL} :
        Check(a, TRUE, Name_a_example, rc, FALSE, FALSE)

\* One second passes, or so many that every offset overflows.
ClockTick ==
    \/ /\ clock < StartTime + MaxTicks
       /\ Tick(1)
    \/ /\ clock = StartTime
       /\ Tick(MAX_OFFSET + 1)

Next == CheckUdp \/ CheckTcp \/ ClockTick

Spec == Init /\ [][Next]_vars

(* The scenarios: two clients of one /24, NOERROR and NXDOMAIN responses. *)

ScenarioUdp ==
    /\ calls < MaxScenarioCalls
    /\ \E a \in {Addr_A1, Addr_A2}, rc \in {Rcode_NOERROR, Rcode_NXDOMAIN} :
          Check(a, FALSE, Name_a_example, rc, TRUE, TRUE)

ScenarioTcp ==
    \E a \in {Addr_A1, Addr_A2}, rc \in {Rcode_NOERROR, Rcode_NXDOMAIN} :
        Check(a, TRUE, Name_a_example, rc, FALSE, TRUE)

NextScenario == ScenarioUdp \/ ScenarioTcp

SpecScenario == InitScenario /\ [][NextScenario]_vars

(* Scenario 6: calls over TCP only, on a fresh limiter. *)

TcpOnly ==
    /\ calls < TcpCalls
    /\ \E a \in {Addr_A1, Addr_A2}, rc \in {Rcode_NOERROR, Rcode_NXDOMAIN} :
          Check(a, TRUE, Name_a_example, rc, TRUE, TRUE)

NextTcp == TcpOnly

SpecTcp == InitScenario /\ [][NextTcp]_vars

(* Scenario 3: one client, one key, the clock advancing second by second. *)

RecoveryUdp ==
    /\ calls < MaxScenarioCalls
    /\ Check(Addr_A1, FALSE, Name_a_example, Rcode_NOERROR, TRUE, TRUE)

\* One second passes, or once so many that every offset overflows.
RecoveryTick ==
    \/ /\ clock < StartTime + MaxTicks
       /\ Tick(1)
    \/ /\ clock <= StartTime + MaxTicks
       /\ Tick(MAX_OFFSET + 1)

NextRecovery == RecoveryUdp \/ RecoveryTick

SpecRecovery == InitScenario /\ [][NextRecovery]_vars

(* Configurations at and beyond the limits the constructor checks, and
   calls with every rcode and two query names. *)

PrefixLengths4 == {-1, 0, 24, 32, 33}
PrefixLengths6 == {-1, 0, 128, 129}

\* <<max_table_size, min_table_size>>
TableSizes == {<<0, 0>>, <<1, 1>>, <<2, 1>>, <<1, 2>>, <<1, -1>>}

InputParamSet ==
    {[max_table_size |-> sz[1], min_table_size |-> sz[2],
      rates |-> <<1, 1, 1>>, window |-> 1, slip |-> 2,
      ipv4_prefixlen |-> v4, ipv6_prefixlen |-> v6, log_only |-> FALSE] :
        sz \in TableSizes, v4 \in PrefixLengths4, v6 \in PrefixLengths6}

InitInputs == \E p \in InputParamSet : InitWith(p)

InputCheck ==
    /\ calls < MaxInputCalls
    /\ \E qname \in {Name_a_example, Name_b_example}, rc \in Rcodes :
          Check(Addr_A1, FALSE, qname, rc, TRUE, TRUE)

NextInputs == InputCheck

SpecInputs == InitInputs /\ [][NextInputs]_vars

(* The scenario configuration with log_only off and on. *)

LogOnlyParamSet ==
    {[max_table_size |-> 1024, min_table_size |-> 64, rates |-> <<5, 5, 5>>,
      window |-> 15, slip |-> 2, ipv4_prefixlen |-> 24, ipv6_prefixlen |-> 56,
      log_only |-> b] : b \in BOOLEAN}

InitLogOnly == \E p \in LogOnlyParamSet : InitWith(p)

LogOnlyUdp ==
    /\ calls < MaxScenarioCalls
    /\ \E a \in {Addr_A1, Addr_A2}, rc \in {Rcode_NOERROR, Rcode_NXDOMAIN} :
          Check(a, FALSE, Name_a_example, rc, TRUE, TRUE)

NextLogOnly == LogOnlyUdp

SpecLogOnly == InitLogOnly /\ [][NextLogOnly]_vars

(* Credit: a limiter with 2 responses per second, or with 1 and every
   second penalized response slipped, and a clock that may also be set back
   (never before the limiter was made) or leap once. *)

MaxCreditCalls == 4

InitCredit ==
    \E p \in {Params(2, 1, 2, 2, 2, 2, 1), Params(2, 1, 1, 1, 1, 2, 2)} :
        InitWith(p)

CreditCheck ==
    /\ calls < MaxCreditCalls
    /\ \E a \in {Addr_A1, Addr_B} :
          Check(a, FALSE, Name_a_example, Rcode_NOERROR, TRUE, TRUE)

CreditTick ==
    \/ /\ clock < StartTime + MaxTicks
       /\ Tick(1)
    \/ /\ clock > StartTime /\ clock <= StartTime + MaxTicks
       /\ Tick(-1)
    \/ /\ clock <= StartTime + MaxTicks
       /\ Tick(MAX_OFFSET + 1)

NextCredit == CreditCheck \/ CreditTick

SpecCredit == InitCredit /\ [][NextCredit]_vars

(* setMask alone: a buffer of 4 or 16 bytes, every prefix length the
   constructor lets through, and the mask applied to addresses as the key
   does.  params holds the arguments, ipv4_mask_ the buffer written (of
   either length), last the address masked and the result. *)

InitMask ==
    /\ params \in {[mask_len |-> 4, plen |-> n] : n \in 0..32}
                 \cup {[mask_len |-> 16, plen |-> n] : n \in 0..128}
    /\ alive = FALSE
    /\ ipv4_mask_ = <<>>
    /\ table_ = RRLTable(0)
    /\ ts_bases_ = TimestampBases(StartTime)
    /\ clock = StartTime
    /\ calls = 0
    /\ last = NoCall
    /\ okhist = [oks |-> <<>>, lastcall |-> -1, hist |-> <<>>]
    /\ subnet_ = <<>>

SetMaskCall ==
    /\ ipv4_mask_ = <<>>
    /\ ipv4_mask_' = setMask(params.mask_len, params.plen)
    /\ UNCHANGED <<params, alive, table_, ts_bases_, clock, calls, last, okhist, subnet_>>

MaskAddress ==
    /\ ipv4_mask_ # <<>>
    /\ \E addr \in {Addr_A2, <<255, 255, 255, 255>>,
                     <<32, 1, 13, 184, 0, 0, 0, 0, 0, 0, 0, 0, 0, 0, 0, 1>>,
                     [i \in 1..16 |-> 255]} :
          /\ Len(addr) = params.mask_len
          /\ last' = [NoCall EXCEPT !.input = addr,
                                    !.key = ApplyMask(addr, ipv4_mask_)]
    /\ UNCHANGED <<params, alive, ipv4_mask_, table_, ts_bases_, clock, calls, okhist, subnet_>>

NextMask == SetMaskCall \/ MaskAddress

SpecMask == InitMask /\ [][NextMask]_vars

---------------------------------------------------------------------------
(* Properties *)

Entries == {table_.lru[i] : i \in 1..Len(table_.lru)}

RateOf(key) == getRate(params.rates, key.rtype)

DebtCapOf(key) == -(params.window * RateOf(key))

\* the last call was a charged (non-TCP) call that found an entry
Charged == ~last.is_tcp /\ last.result \in {RRL_OK, RRL_DROP, RRL_SLIP}

\* in the times ts of OK verdicts, no interval holds more than rate * T + rate
WithinCeiling(ts, rate) ==
    \A i \in 1..Len(ts) : \A j \in i..Len(ts) :
        j - i + 1 <= rate * (ts[j] - ts[i]) + rate

\* C1 as stated, for a key with rate > 0: whatever calls are made for other
\* keys, every interval [t, t+T] holds at most rate * T + rate OK verdicts
\* for the watched key.
C1_RateCeilingAnyInterleaving ==
    RateOf(WatchedKey) > 0 => WithinCeiling(okhist.oks, RateOf(WatchedKey))

\* C1 amended: for a key with rate > 0, over any period in which its entry
\* stays live (not recycled by the table, not reset as stale), every
\* interval [t, t+T] holds at most rate * T + rate OK verdicts.
C1_RateCeilingPerLiveEntry ==
    \A e \in Entries : RateOf(e.key) > 0 => WithinCeiling(e.okts, RateOf(e.key))

\* C1 witness: an entry took rate * T + rate OK verdicts over T >= 1 seconds
\* and the next response was penalized.
C1_Witness ==
    /\ Charged /\ last.result # RRL_OK /\ last.path = "hit"
    /\ LET e == Head(table_.lru)
           n == Len(e.okts)
       IN  /\ n >= 2
           /\ e.okts[n] > e.okts[1]
           /\ n = RateOf(e.key) * (e.okts[n] - e.okts[1]) + RateOf(e.key)

\* C2: every entry's balance is at least -window * rate(category), and a
\* charge that goes below this bound leaves the balance exactly there.
C2_DebtCap ==
    /\ \A e \in Entries : e.responses >= DebtCapOf(e.key)
    /\ (Charged /\ last.charged < DebtCapOf(last.key))
           => Head(table_.lru).responses = DebtCapOf(last.key)

\* C2 witness: a charge went below the bound and was clamped.
C2_Witness ==
    /\ Charged /\ RateOf(last.key) > 0
    /\ last.charged < DebtCapOf(last.key)
    /\ Head(table_.lru).responses = DebtCapOf(last.key)

\* C3 as stated: a call made at least `window` seconds after the previous call
\* for the same key returns OK.
C3_RecoveryAtWindow ==
    (Charged /\ last.gap >= params.window) => last.result = RRL_OK

\* C3 amended: a call made more than `window` seconds after the previous call
\* for the same key returns OK.
C3_RecoveryAfterWindow ==
    (Charged /\ last.gap > params.window) => last.result = RRL_OK

\* C3 witness: the key's entry was at the debt cap, was left alone for more
\* than the window, and the next call found it and got OK.
C3_Witness ==
    /\ Charged /\ last.gap > params.window
    /\ last.path = "hit" /\ ~last.stale
    /\ RateOf(last.key) > 0
    /\ last.before = DebtCapOf(last.key)
    /\ last.result = RRL_OK

\* the verdict of the n-th call of one second on a new entry, rate 5, slip 2
Scenario2Verdict(n) ==
    IF n <= 5 THEN RRL_OK ELSE IF (n - 5) % 2 = 0 THEN RRL_SLIP ELSE RRL_DROP

\* C4: with slip = N > 0 the k-th penalized verdict in a row is SLIP exactly
\* when k is a multiple of N; with rate 5 and slip 2 the n-th call of one
\* second for one key gets OK for n <= 5, then DROP, SLIP, DROP, SLIP, DROP.
C4_SlipPosition ==
    Charged =>
        LET e == Head(table_.lru)
            k == Len(e.runv)
            n == Len(e.okts) + k
        IN  /\ (last.result # RRL_OK /\ params.slip > 0)
                  => (last.result = RRL_SLIP <=> k % params.slip = 0)
            /\ (params.slip = 2 /\ clock = StartTime)
                  => last.result = Scenario2Verdict(n)

\* C4 witness: the 10th call of one second for one key, slip 2: a DROP after
\* OK x5, DROP, SLIP, DROP, SLIP.
C4_Witness ==
    /\ Charged /\ params.slip = 2 /\ last.result = RRL_DROP
    /\ Len(Head(table_.lru).okts) = 5
    /\ Head(table_.lru).runv = <<RRL_DROP, RRL_SLIP, RRL_DROP, RRL_SLIP, RRL_DROP>>

\* C5 as stated: in a run of penalized verdicts of one entry the 1st,
\* (1+N)-th, (1+2N)-th ... are SLIP and the others DROP.
C5_SlipFirstInRun ==
    \A e \in Entries : \A k \in 1..Len(e.runv) :
        e.runv[k] = IF params.slip > 0 /\ (k - 1) % params.slip = 0
                    THEN RRL_SLIP ELSE RRL_DROP

\* C5 amended: in a run of penalized verdicts of one entry the N-th, 2N-th,
\* 3N-th ... are SLIP and the others DROP.
C5_SlipEveryNth ==
    \A e \in Entries : \A k \in 1..Len(e.runv) :
        e.runv[k] = IF params.slip > 0 /\ k % params.slip = 0
                    THEN RRL_SLIP ELSE RRL_DROP

\* C5 witness: a run that starts with a DROP and reaches its first SLIP at
\* position N = 2.
C5_Witness ==
    \E e \in Entries : params.slip = 2 /\ e.runv = <<RRL_DROP, RRL_SLIP>>

\* C6: a call over TCP returns OK and changes nothing of the limiter: not the
\* table (entries, LRU order, balances, slip counters, entry count), not the
\* timestamp bases, not the configuration.
C6_TcpBypass ==
    [][(last' # last /\ last'.is_tcp)
          => /\ last'.result = RRL_OK
             /\ UNCHANGED <<table_, ts_bases_, params, alive, ipv4_mask_>>]_vars

\* C6 witness: a call over TCP was made for a key whose entry is in debt.
C6_Witness ==
    /\ last.is_tcp /\ last.result = RRL_OK
    /\ \E e \in Entries : e.key = last.key /\ e.responses < 0

\* C7: on a new limiter (min_table 64, max_table 1024) calls over TCP, up to
\* 100 of them and beyond, all return OK and leave the entry count at 0.
C7_TcpLeavesNoEntries ==
    /\ getEntryCount(table_) = 0
    /\ calls > 0 => last.result = RRL_OK

\* C7 witness: 100 calls over TCP were made.
C7_Witness ==
    /\ calls = 100 /\ last.is_tcp
    /\ params.min_table_size = 64 /\ params.max_table_size = 1024

\* C8: the number of live entries never exceeds max_table_size.
C8_CapacityConservation ==
    alive => getEntryCount(table_) <= params.max_table_size

\* C8 witness: the table holds max_table_size entries and a miss recycled one.
C8_Witness ==
    /\ alive /\ getEntryCount(table_) = params.max_table_size
    /\ Charged /\ last.path = "steal"

\* C9: in every reachable state, a call from 192.0.2.1 and the same call from
\* 192.0.2.254 (one /24) return the same verdict and leave the same limiter
\* state, so any interleaving of the two clients gets the verdicts of one
\* client making all the calls; the two are charged to one entry.
C9_PrefixCollapse ==
    /\ \A rc \in {Rcode_NOERROR, Rcode_NXDOMAIN} :
          LET r1 == check(table_, ts_bases_, Addr_A1, FALSE, RRClass_IN,
                          RRType_A, Name_a_example, rc, clock)
              r2 == check(table_, ts_bases_, Addr_A2, FALSE, RRClass_IN,
                          RRType_A, Name_a_example, rc, clock)
          IN  r1 = r2
    /\ \A e \in Entries : \A f \in Entries : e.key = f.key => e = f
    /\ (Charged /\ params.slip = 2)
          => last.result = Scenario2Verdict(Len(Head(table_.lru).okts)
                                            + Len(Head(table_.lru).runv))

\* C9 witness: 10 calls from the two clients were charged to one entry, with
\* verdicts OK x5, DROP, SLIP, DROP, SLIP, DROP.
C9_Witness ==
    \E e \in Entries :
        /\ e.clients = {Addr_A1, Addr_A2}
        /\ params.slip = 2
        /\ Len(e.okts) = 5
        /\ e.runv = <<RRL_DROP, RRL_SLIP, RRL_DROP, RRL_SLIP, RRL_DROP>>

CategoryOf(rcode) ==
    IF rcode = Rcode_NOERROR THEN RESPONSE_QUERY
    ELSE IF rcode = Rcode_NXDOMAIN THEN RESPONSE_NXDOMAIN
    ELSE RESPONSE_ERROR

C11_WithinLimitAnyInterleaving ==
    LET r == RateOf(WatchedKey)
        h == okhist.hist
    IN  r > 0 =>
          \A k \in 1..Len(h) :
              h[k].t = h[1].t =>
                  /\ k <= r => h[k].v = RRL_OK
                  /\ k = r + 1 => h[k].v # RRL_OK

\* C11 amended: a call charged to an entry created in the current second
\* (rate r > 0), the k-th charged to it, gets OK exactly when k <= r: the
\* first r get OK, the (r+1)-th does not, as long as the entry is not recycled.
C11_WithinLimitLiveEntry ==
    Charged =>
        LET e == Head(table_.lru)
            r == RateOf(e.key)
            k == Len(e.okts) + Len(e.runv)
        IN  (r > 0 /\ e.okts # <<>> /\ e.okts[1] = clock)
                => (last.result = RRL_OK <=> k <= r)

\* C11 witness: with rate 2, the third call of one second on a new entry was
\* penalized after two OK verdicts.
C11_Witness ==
    /\ Charged /\ last.result # RRL_OK
    /\ LET e == Head(table_.lru)
       IN  /\ RateOf(e.key) = 2
           /\ e.okts = <<clock, clock>>
           /\ Len(e.runv) = 1

\* C12: after 7 calls in the first second for one key (rate 5, window 15)
\* the balance is -2, and when the next calls come 2 seconds later, the 8th,
\* 9th and 10th call get OK.
C12_RecoveryScenario ==
    LET h == okhist.hist
    IN  (Len(h) >= 7 /\ h[7].t = StartTime) =>
          /\ Len(h) = 7 =>
                \E e \in Entries : e.key = WatchedKey /\ e.responses = -2
          /\ \A k \in 8..10 :
                (k <= Len(h) /\ h[8].t = StartTime + 2 /\ h[k].t = StartTime + 2)
                    => h[k].v = RRL_OK

\* C12 witness: slip 2, 7 calls in the first second ending DROP, SLIP, then
\* 3 calls 2 seconds later, all OK.
C12_Witness ==
    LET h == okhist.hist
    IN  /\ params.slip = 2 /\ Len(h) = 10
        /\ h[7].t = StartTime /\ h[6].v = RRL_DROP /\ h[7].v = RRL_SLIP
        /\ h[8].t = StartTime + 2
        /\ h[8].v = RRL_OK /\ h[9].v = RRL_OK /\ h[10].v = RRL_OK

\* C13: when the rate of a category is 0, every call whose rcode falls in
\* that category gets OK.
C13_ZeroRateAlwaysOk ==
    /\ (last # NoCall /\ ~last.is_tcp
           /\ getRate(params.rates, CategoryOf(last.rcode)) = 0)
          => last.result = RRL_OK
    /\ RateOf(WatchedKey) = 0
          => \A k \in 1..Len(okhist.hist) : okhist.hist[k].v = RRL_OK

\* C13 witness: with rate 0 for QUERY, three NOERROR responses of one second
\* for one key all got OK.
C13_Witness ==
    /\ RateOf(WatchedKey) = 0
    /\ Len(okhist.hist) = 3
    /\ okhist.hist[1].t = okhist.hist[3].t
    /\ okhist.hist[3].v = RRL_OK

\* C14: with slip = 0 no call returns SLIP; every penalized verdict is DROP.
C14_SlipZeroNeverSlips ==
    params.slip = 0 =>
        /\ last.result # RRL_SLIP
        /\ (Charged /\ last.result # RRL_OK) => last.result = RRL_DROP
        /\ \A e \in Entries : \A k \in 1..Len(e.runv) : e.runv[k] = RRL_DROP

\* C14 witness: with slip = 0 an entry took two penalized verdicts in a row,
\* both DROP.
C14_Witness ==
    /\ params.slip = 0
    /\ \E e \in Entries : e.runv = <<RRL_DROP, RRL_DROP>>

Verdicts == {RRL_OK, RRL_DROP, RRL_SLIP}

\* C15 as stated: the constructor throws exactly when ipv4_prefixlen is
\* outside 0..32, or ipv6_prefixlen is outside 0..128, or max_table_size is
\* less than min_table_size; every limiter it builds answers every call
\* with a verdict.
C15_CtorFailsExactly ==
    /\ ~alive <=> \/ params.ipv4_prefixlen \notin 0..32
                  \/ params.ipv6_prefixlen \notin 0..128
                  \/ params.max_table_size < params.min_table_size
    /\ (alive /\ last # NoCall) => last.result \in Verdicts

\* C16: a NOERROR response is counted as QUERY, an NXDOMAIN response as
\* NXDOMAIN, and a response with any other rcode, assigned or not, as ERROR;
\* the call is answered with a verdict.
C16_RcodeClassification ==
    Charged =>
        /\ last.rcode = Rcode_NOERROR => last.key.rtype = RESPONSE_QUERY
        /\ last.rcode = Rcode_NXDOMAIN => last.key.rtype = RESPONSE_NXDOMAIN
        /\ last.rcode \notin {Rcode_NOERROR, Rcode_NXDOMAIN}
              => last.key.rtype = RESPONSE_ERROR
        /\ Head(table_.lru).key = last.key
        /\ last.result \in Verdicts

\* C16 witness: a response with an unassigned rcode was charged to an ERROR
\* entry.
C16_Witness ==
    /\ Charged /\ last.rcode = Rcode_Unassigned
    /\ Head(table_.lru).key.rtype = RESPONSE_ERROR
    /\ last.result = RRL_OK

\* C17: an ERROR response for a.example and one for B.Example from the same
\* prefix get the same verdict and leave the same limiter state; ERROR
\* entries carry no name, no two entries share a key, and an ERROR entry
\* gives no more OK verdicts in one second than its rate, however many names
\* were charged to it.
C17_ErrorAggregation ==
    alive =>
        /\ \A rc \in Rcodes \ {Rcode_NOERROR, Rcode_NXDOMAIN} :
              check(table_, ts_bases_, Addr_A1, FALSE, RRClass_IN, RRType_A,
                    Name_a_example, rc, clock)
              = check(table_, ts_bases_, Addr_A1, FALSE, RRClass_IN, RRType_A,
                      Name_b_example, rc, clock)
        /\ \A e \in Entries :
              e.key.rtype = RESPONSE_ERROR
                  => /\ e.key.qname = NoName
                     /\ Len(e.okts) <= RateOf(e.key)
        /\ \A i \in 1..Len(table_.lru) : \A j \in 1..Len(table_.lru) :
              table_.lru[i].key = table_.lru[j].key => i = j

\* C17 witness: SERVFAIL-like responses for two names were charged to one
\* ERROR entry: the first got OK, the second was penalized.
C17_Witness ==
    /\ Charged /\ last.result # RRL_OK
    /\ LET e == Head(table_.lru)
       IN  /\ e.key.rtype = RESPONSE_ERROR
           /\ e.names = {Name_a_example, Name_b_example}
           /\ Len(e.okts) = 1 /\ Len(e.runv) = 1

\* C20 as stated: on every limiter the constructor builds, get_entry finds
\* an entry for the key of every call, so assert(entry) never fails.
C20_GetEntryTotal ==
    alive => (last.result # "assert" /\ last.path # "none")

\* C18: with log_only off and with log_only on, the n-th call of one second
\* for one key gets the same verdict (OK x5, then DROP, SLIP, DROP, ...) and
\* leaves the same balance 5 - n: verdicts and balances do not depend on
\* log_only, and DROP and SLIP are returned when it is on.
C18_LogOnlySameVerdicts ==
    /\ Charged =>
          LET e == Head(table_.lru)
              n == Len(e.okts) + Len(e.runv)
          IN  /\ last.result = Scenario2Verdict(n)
              /\ e.responses = Max(5 - n, DebtCapOf(e.key))
    /\ \A k \in 1..Len(okhist.hist) : okhist.hist[k].v = Scenario2Verdict(k)

\* C18 witness: with log_only on, the 7th call of one second got SLIP and
\* left the balance at -2.
C18_Witness ==
    /\ params.log_only /\ Charged /\ last.result = RRL_SLIP
    /\ Len(okhist.hist) = 7
    /\ Head(table_.lru).responses = -2

\* C19 as stated: the first penalized response of a run, on an entry not yet
\* marked logging, leaves the entry marked logging.
C19_LogOnFirstPenalty ==
    (Charged /\ last.result \in {RRL_DROP, RRL_SLIP}
        /\ Len(Head(table_.lru).runv) = 1)
        => Head(table_.lru).logging

---------------------------------------------------------------------------
(* Keys: three clients, names that differ in case only, two classes, two
   types, three categories. *)

MaxKeyCalls == 2

InitKeys == \E p \in {q \in ScenarioParamSet : q.slip = 2} : InitWith(p)

\* the calls made: every client, name and category for class IN and type A;
\* one client and name in every category for class CH and for type AAAA
KeyInputs ==
    ({Addr_A1, Addr_A2, Addr_B} \X {RRClass_IN} \X {RRType_A}
        \X {Name_a_example, Name_A_EXAMPLE, Name_b_example}
        \X {Rcode_NOERROR, Rcode_NXDOMAIN, Rcode_SERVFAIL})
    \cup ({Addr_A1} \X {RRClass_CH} \X {RRType_A} \X {Name_a_example}
            \X {Rcode_NOERROR, Rcode_NXDOMAIN, Rcode_SERVFAIL})
    \cup ({Addr_A1} \X {RRClass_IN} \X {RRType_AAAA} \X {Name_a_example}
            \X {Rcode_NOERROR, Rcode_NXDOMAIN, Rcode_SERVFAIL})

KeyCheck ==
    /\ calls < MaxKeyCalls
    /\ \E i \in KeyInputs :
          CheckQ(i[1], FALSE, i[2], i[3], i[4], i[5], TRUE, TRUE)

NextKeys == KeyCheck

SpecKeys == InitKeys /\ [][NextKeys]_vars

---------------------------------------------------------------------------
(* The timestamp bases: the clock leaps by MAX_OFFSET seconds or one more,
   between calls of check() and of getCurrentTimestampBase(). *)

MaxLeaps == 5
MaxBaseCalls == 2

\* impl_->ts_bases_.getCurrentBase(now); .first of the result is sec
getCurrentTimestampBase(pool, now) == getCurrentBase(pool, now)

GetCurrentTimestampBase ==
    /\ alive
    /\ \E r \in {getCurrentTimestampBase(ts_bases_, clock)} :
          /\ ts_bases_' = r.pool
          /\ table_' = Notified(table_, ts_bases_, r.pool)
    /\ UNCHANGED <<params, alive, ipv4_mask_, clock, calls, last, okhist, subnet_>>

BaseLeap ==
    \E d \in {MAX_OFFSET, MAX_OFFSET + 1} :
        /\ clock + d <= StartTime + MaxLeaps * (MAX_OFFSET + 1)
        /\ Tick(d)

BaseCheck ==
    /\ calls < MaxBaseCalls
    /\ \E q \in {<<Addr_A1, Rcode_NOERROR>>, <<Addr_B, Rcode_NXDOMAIN>>} :
          Check(q[1], FALSE, Name_a_example, q[2], TRUE, TRUE)

NextBases == GetCurrentTimestampBase \/ BaseLeap \/ BaseCheck

\* the scenario configuration with no limit on NOERROR answers
InitBases ==
    \E p \in {q \in ScenarioParamSet : q.slip = 2} :
        InitWith([p EXCEPT !.rates = <<0, 5, 5>>])

SpecBases == InitBases /\ [][NextBases]_vars

---------------------------------------------------------------------------
(* Termination, keys, balances *)

\* C21 as stated: every call of check() that a limiter has answered came
\* back with one of the verdicts OK, DROP, SLIP.
C21_CheckAlwaysReturns ==
    calls > 0 => last.result \in Verdicts

\* the address a with the bits cleared that a prefix of plen bits leaves out
Prefix(a, plen) ==
    [i \in 1..Len(a) |->
        IF 8 * i <= plen THEN a[i]
        ELSE IF 8 * (i - 1) >= plen THEN 0
        ELSE a[i] - (a[i] % Pow2(8 * i - plen))]

\* the ASCII lower-case form of a name, letter by letter
Lower(name) ==
    [i \in 1..Len(name) |->
        [j \in 1..Len(name[i]) |->
            IF name[i][j] \in 65..90 THEN name[i][j] + 32 ELSE name[i][j]]]

\* Two calls differ at most in the letter case of the query name and in
\* address bits outside the configured prefix (in the name too, when both
\* responses are errors).  x, y: <<client_addr, qclass, qtype, qname>>.
SameCanon(x, rcx, y, rcy) ==
    /\ Prefix(x[1], params.ipv4_prefixlen) = Prefix(y[1], params.ipv4_prefixlen)
    /\ x[2] = y[2]
    /\ x[3] = y[3]
    /\ CategoryOf(rcx) = CategoryOf(rcy)
    /\ CategoryOf(rcx) = RESPONSE_ERROR \/ Lower(x[4]) = Lower(y[4])

\* C22: of two consecutive calls, the second is charged to the entry of the
\* first, under an equal key with an equal hash, if the two differ at most
\* in the letter case of the name and in address bits the mask clears (and
\* in the name, for error responses); it is charged to an entry with an
\* unequal key if they differ in category, class, type, masked prefix or
\* (errors apart) canonical name.
C22_KeyCanonicalization ==
    [][(calls > 0 /\ calls' = calls + 1 /\ ~last.is_tcp /\ ~last'.is_tcp) =>
        LET k1 == Head(table_.lru)
            k2 == Head(table_'.lru)
        IN  IF SameCanon(last.input, last.rcode, last'.input, last'.rcode)
            THEN /\ last'.path = "hit"
                 /\ k2.key = k1.key
                 /\ k2.hash = k1.hash
                 /\ k2.slot = k1.slot
                 /\ KeyHash(last'.key, hash_seed_) = KeyHash(last.key, hash_seed_)
            ELSE /\ k2.key # k1.key
                 /\ k2.slot # k1.slot]_vars

\* C22 witness: a call from 192.0.2.254 for A.EXAMPLE was charged to the
\* entry made for 192.0.2.1 and a.example.
C22_Witness ==
    /\ calls = 2 /\ last.path = "hit"
    /\ last.input = <<Addr_A2, RRClass_IN, RRType_A, Name_A_EXAMPLE>>
    /\ Head(table_.lru).clients = {Addr_A1, Addr_A2}
    /\ Head(table_.lru).names = {Name_a_example, Name_A_EXAMPLE}

\* C23 as stated: the balance of every entry is at most 1.
C23_ResidueAtMostOne ==
    \A e \in Entries : e.responses <= 1

\* C23, amended: the balance of every entry is at most the rate of its
\* category, and right after a response was charged to an entry that was
\* not stale, the entry's balance is below that rate (unless the rate is 0
\* and the entry is never charged).
C23_ResidueAtMostRate ==
    /\ \A e \in Entries : e.responses <= RateOf(e.key)
    /\ (Charged /\ ~last.stale /\ RateOf(last.key) > 0) =>
           Head(table_.lru).responses <= RateOf(last.key) - 1

\* C23 witness: a stale entry of a category with rate 2 was reset to a
\* balance of 2.
C23_Witness ==
    /\ Charged /\ last.stale /\ last.path = "hit"
    /\ RateOf(last.key) = 2
    /\ Head(table_.lru).responses = 2

---------------------------------------------------------------------------
(* The table *)

\* how often x occurs in the sequence s
Occurrences(s, x) == Cardinality({i \in 1..Len(s) : s[i] = x})

\* how often the entry object `slot` occurs in chain b of the table
InChain(tbl, b, slot) == Occurrences(tbl.chains[b], slot)

\* the entry objects in use
LiveSlots(tbl) == {tbl.lru[i].slot : i \in 1..Len(tbl.lru)}

\* C24: after every get_entry call every entry in use occurs once in the
\* LRU list, once in the hash chain that its cached hash selects among the
\* current chains and in no other chain, and not on the free list; no entry
\* of the free list is in the LRU or in a chain; and no two entries in use
\* hold equal keys.
C24_TableStructure ==
    alive =>
        LET n == Len(table_.lru)
            bins == Len(table_.chains)
        IN  /\ \A i, j \in 1..n :
                  i # j => /\ table_.lru[i].slot # table_.lru[j].slot
                           /\ table_.lru[i].key # table_.lru[j].key
            /\ \A i \in 1..n :
                  LET e == table_.lru[i]
                  IN  /\ e.hash = KeyHash(e.key, hash_seed_)
                      /\ \A b \in 1..bins :
                            InChain(table_, b, e.slot) =
                                IF b = BinOf(e.hash, bins) THEN 1 ELSE 0
                      /\ Occurrences(table_.free, e.slot) = 0
            /\ \A f \in 1..Len(table_.free) :
                  /\ Occurrences(table_.free, table_.free[f]) = 1
                  /\ table_.free[f] \notin LiveSlots(table_)
                  /\ \A b \in 1..bins : InChain(table_, b, table_.free[f]) = 0
            /\ \A b \in 1..bins : \A k \in 1..Len(table_.chains[b]) :
                  table_.chains[b][k] \in LiveSlots(table_)

\* C24 witness: an entry has just been stolen from a table of two chains,
\* and the two entries in use share one hash chain.
C24_Witness ==
    /\ alive /\ last.path = "steal"
    /\ Len(table_.lru) = 2 /\ Len(table_.chains) = 2
    /\ \E b \in 1..2 : Len(table_.chains[b]) = 2

\* C25: right after a get_entry call the entry it returned, found or newly
\* initialised, is the LRU head, and the other entries still in the table
\* follow it unchanged and in the order they had before.
C25_LruPromotion ==
    [][(calls' = calls + 1 /\ ~last'.is_tcp /\ last'.path # "none") =>
        /\ Head(table_'.lru).key = last'.key
        /\ Tail(table_'.lru) =
              SelectSeq(table_.lru,
                        LAMBDA e : e.slot # Head(table_'.lru).slot)
        /\ last'.path = "hit" <=>
              \E i \in 1..Len(table_.lru) : table_.lru[i].key = last'.key
        /\ last'.path = "hit" =>
              \E i \in 1..Len(table_.lru) :
                  /\ table_.lru[i].key = last'.key
                  /\ table_.lru[i].slot = Head(table_'.lru).slot
        /\ last'.path \in {"free", "grow"} =>
              Len(table_'.lru) = Len(table_.lru) + 1
        /\ last'.path \in {"hit", "aged", "steal"} =>
              Len(table_'.lru) = Len(table_.lru)]_vars

\* C25 witness: of two entries in use, the one made first was hit by the
\* third call and is the LRU head again.
C25_Witness ==
    /\ calls = 3 /\ last.path = "hit" /\ Len(table_.lru) = 2
    /\ table_.lru[1].slot = 1 /\ table_.lru[2].slot = 2
    /\ Len(table_.lru[1].okts) + Len(table_.lru[1].runv) = 2

\* the entries recycled by the last step: those whose entry object now
\* holds the LRU head while they held another key
Recycled ==
    {i \in 1..Len(table_.lru) :
        /\ table_.lru[i].slot = Head(table_'.lru).slot
        /\ table_.lru[i].key # Head(table_'.lru).key}

C28_Expansion ==
    /\ [](alive => /\ Len(table_.chains) = table_.capacity
                   /\ table_.capacity >= params.min_table_size
                   /\ table_.capacity <= table_.max_capacity)
    /\ [][/\ table_'.capacity >= table_.capacity
          /\ Len(table_'.chains) >= Len(table_.chains)
          /\ Len(table_'.chains) > Len(table_.chains) <=>
                (calls' = calls + 1 /\ last'.path = "grow")
          /\ Len(table_'.chains) > Len(table_.chains) =>
                /\ calls' = calls + 1
                /\ Len(table_'.chains) =
                      Min(2 * Len(table_.chains), table_.max_capacity)
                /\ Tail(table_'.lru) = table_.lru
                /\ \A i \in 1..Len(table_'.lru) :
                      \A b \in 1..Len(table_'.chains) :
                          InChain(table_', b, table_'.lru[i].slot) =
                              IF b = BinOf(table_'.lru[i].hash, Len(table_'.chains))
                              THEN 1 ELSE 0]_vars

\* C28 witness: a table of one chain has grown to two; the entry it held is
\* second in the LRU, next to the new entry.
C28_Witness ==
    /\ alive /\ last.path = "grow" /\ params.min_table_size = 1
    /\ Len(table_.chains) = 2 /\ table_.capacity = 2
    /\ Len(table_.lru) = 2 /\ table_.lru[2].slot = 1

\* C29: the entries in use are never more than the hash chains.
C29_LoadBound ==
    alive => Len(table_.lru) <= Len(table_.chains)

\* C29 witness: a table grown to two chains holds two entries (load 1.0).
C29_Witness ==
    /\ alive /\ params.min_table_size = 1
    /\ Len(table_.chains) = 2 /\ Len(table_.lru) = 2
    /\ last.path = "hit"

---------------------------------------------------------------------------
(* The timestamp base pool *)

\* at most four bases, with different ids in 0..3
WellFormedPool(pool) ==
    /\ Len(pool.bases) <= 4
    /\ \A i \in 1..Len(pool.bases) : pool.bases[i].id \in 0..3
    /\ \A i, j \in 1..Len(pool.bases) :
          i # j => pool.bases[i].id # pool.bases[j].id

BaseSet(pool) == {pool.bases[i] : i \in 1..Len(pool.bases)}

\* the bases of the pool that no other base is older than
Oldest(pool) == {b \in BaseSet(pool) : \A c \in BaseSet(pool) : b.sec <= c.sec}

\* C30: the pool holds at most four bases, with different ids in 0..3; for
\* the present time, for the second before it and for times MAX_OFFSET and
\* MAX_OFFSET + 1 seconds ahead, current_base(now) returns a base of the
\* pool with now - MAX_OFFSET <= base_second <= now; it leaves the pool as
\* it is when a base fits; when none fits it makes a base at `now`, in a
\* free slot if the pool holds fewer than four bases and otherwise in the
\* slot of an oldest base, which it evicts, and adds one to the epoch of
\* that slot alone.
C30_BasePool ==
    alive =>
        /\ WellFormedPool(ts_bases_)
        /\ \A now \in {clock - 1, clock, clock + MAX_OFFSET, clock + MAX_OFFSET + 1} :
            \A r \in {getCurrentTimestampBase(ts_bases_, now)} :
                LET fits == \E b \in BaseSet(ts_bases_) :
                                now - MAX_OFFSET <= b.sec /\ b.sec <= now
                IN  /\ now - MAX_OFFSET <= r.sec /\ r.sec <= now
                    /\ [sec |-> r.sec, id |-> r.id] \in BaseSet(r.pool)
                    /\ r.epoch = r.pool.epochs[r.id]
                    /\ WellFormedPool(r.pool)
                    /\ fits => r.pool = ts_bases_
                    /\ ~fits =>
                          /\ r.sec = now
                          /\ r.pool.epochs =
                                [ts_bases_.epochs EXCEPT ![r.id] = @ + 1]
                          /\ IF Len(ts_bases_.bases) < 4
                             THEN /\ \A b \in BaseSet(ts_bases_) : b.id # r.id
                                  /\ BaseSet(r.pool) =
                                        BaseSet(ts_bases_)
                                            \cup {[sec |-> now, id |-> r.id]}
                             ELSE \E o \in Oldest(ts_bases_) :
                                      /\ o.id = r.id
                                      /\ BaseSet(r.pool) =
                                            (BaseSet(ts_bases_) \ {o})
                                                \cup {[sec |-> now, id |-> r.id]}

\* C30 witness: four bases are in use, slot 0 holds its second base (the
\* first one was evicted as the oldest), and no base fits the present time:
\* the next call evicts again.
C30_Witness ==
    /\ alive /\ Len(ts_bases_.bases) = 4
    /\ ts_bases_.epochs[0] = 2
    /\ \A b \in BaseSet(ts_bases_) : b.sec < clock - MAX_OFFSET

---------------------------------------------------------------------------
(* Timestamps of entries *)

\* the entry's (base_id, epoch) names no base of the pool, or its base lies
\* more than MAX_OFFSET seconds before now
InvalidBase(pool, e, now) ==
    \/ \A b \in BaseSet(pool) : b.id # e.base_id
    \/ pool.epochs[e.base_id] # e.epoch
    \/ \E b \in BaseSet(pool) : b.id = e.base_id /\ now - b.sec > MAX_OFFSET

\* the entries of the table that hold the key
Holding(tbl, key) == {i \in 1..Len(tbl.lru) : tbl.lru[i].key = key}

ValidBase(pool, e) ==
    /\ BaseSecond(pool, e.base_id) # -1
    /\ pool.epochs[e.base_id] = e.epoch

C33_StaleReset ==
    [][(calls' = calls + 1 /\ last'.stale) =>
          LET h == Head(table_'.lru)
              b == getCurrentBase(ts_bases_, clock)
          IN  /\ last'.path = "hit"
              /\ h.key = last'.key
              /\ h.responses = RateOf(h.key)
              /\ ts_bases_' = b.pool
              /\ h.base_id = b.id /\ h.epoch = b.epoch
              /\ clock - b.sec \in 0..MAX_OFFSET
              /\ h.last_used_offset = 0
              /\ ~h.logging
              /\ h.slip_cnt = 0
              /\ last'.result = RRL_OK]_vars

\* C33 witness: with slip 2, an entry one response in debt, whose slip
\* counter was advanced by the DROP, has just been found stale and reset.
C33_Witness ==
    /\ params.slip = 2
    /\ last.stale /\ last.before = -1
    /\ \E e \in Entries :
          /\ e.key = last.key /\ e.reset /\ e.used = clock
          /\ e.responses = RateOf(e.key)

---------------------------------------------------------------------------
(* Credit and the slip counter *)

\* C34 as stated: no balance is above rate(category); a call that finds the
\* entry of its key leaves it, before the debt cap, at
\* min(rate, old balance + rate * elapsed) - 1 with
\* elapsed = max(0, now_offset - last_used_offset) unless the entry is stale,
\* and in any case at rate - 1 or less, so that it and the calls of the same
\* second get at most rate OK verdicts however long the entry was idle; a
\* call earlier than the entry's last use is charged to the old balance.
C34_CreditCap ==
    /\ [](\A e \in Entries : e.responses <= RateOf(e.key))
    /\ [][(calls' = calls + 1 /\ last'.path = "hit" /\ RateOf(last'.key) > 0) =>
            \A i \in Holding(table_, last'.key) :
              LET e == table_.lru[i]
                  rate == RateOf(e.key)
                  elapsed == Max(0, clock - BaseSecond(ts_bases_, e.base_id)
                                      - e.last_used_offset)
              IN  /\ ~last'.stale =>
                        last'.charged = Min(rate, e.responses + rate * elapsed) - 1
                  /\ last'.charged <= rate - 1
                  /\ (~last'.stale /\ clock < e.used) =>
                        last'.charged = e.responses - 1]_vars

\* C34, amended: the same, except that a call that finds the entry stale
\* (its base lies more than MAX_OFFSET seconds back) is not charged and
\* leaves the balance at rate, so that rate + 1 OK verdicts can fall in that
\* second.
C34_CreditCapUnlessStale ==
    /\ [](\A e \in Entries : e.responses <= RateOf(e.key))
    /\ [][(calls' = calls + 1 /\ last'.path = "hit" /\ RateOf(last'.key) > 0) =>
            \A i \in Holding(table_, last'.key) :
              LET e == table_.lru[i]
                  rate == RateOf(e.key)
                  elapsed == Max(0, clock - BaseSecond(ts_bases_, e.base_id)
                                      - e.last_used_offset)
              IN  /\ ~last'.stale =>
                        /\ last'.charged = Min(rate, e.responses + rate * elapsed) - 1
                        /\ last'.charged <= rate - 1
                  /\ last'.stale =>
                        /\ InvalidBase(ts_bases_, e, clock)
                        /\ last'.charged = rate
                        /\ last'.result = RRL_OK
                  /\ (~last'.stale /\ clock < e.used) =>
                        last'.charged = e.responses - 1]_vars

\* C34 witness: a call one second earlier than the last use of its entry,
\* whose balance was 0, has been charged to that balance and penalized.
C34_Witness ==
    /\ last.key = WatchedKey
    /\ last.path = "hit" /\ ~last.stale
    /\ last.gap = -1
    /\ last.before = 0 /\ last.charged = -1
    /\ last.result # RRL_OK

\* C35: the slip counter of an entry counts, modulo slip, the penalized
\* responses since the last OK verdict for the entry, and is 0 when that
\* verdict was the last one; so every run of penalized responses starts
\* with the same verdict, whatever the length of the run before it.
C35_SlipCounterReset ==
    /\ [](\A e \in Entries :
            /\ e.runv = <<>> => e.slip_cnt = 0
            /\ params.slip > 0 => e.slip_cnt = Len(e.runv) % params.slip
            /\ e.runv # <<>> =>
                  e.runv[1] = IF params.slip = 1 THEN RRL_SLIP ELSE RRL_DROP)
    /\ [][(calls' = calls + 1 /\ last'.result = RRL_OK) =>
             Head(table_'.lru).slip_cnt = 0]_vars

\* C35 witness: with slip 2, a run of one penalized response (the counter
\* at 1) was ended by an OK verdict, and the first response of the next run
\* has been dropped.
C35_Witness ==
    /\ params.slip = 2
    /\ Len(okhist.hist) = 4
    /\ okhist.hist[2].v = RRL_DROP
    /\ okhist.hist[3].v = RRL_OK
    /\ okhist.hist[4].v = RRL_DROP
    /\ \E e \in Entries : e.key = WatchedKey /\ e.runv = <<RRL_DROP>>

---------------------------------------------------------------------------
(* Masks *)

\* bit k of the bytes b, counted from 1 in network byte order
MaskBit(b, k) == (b[((k - 1) \div 8) + 1] \div Pow2(7 - ((k - 1) % 8))) % 2

\* C36: for mask_len 4 or 16 and every plen in 0..8*mask_len, neither
\* assertion of setMask fails, the mask written has mask_len bytes, its
\* first plen bits are 1 and the others 0 (all zero for plen 0, all one for
\* plen 8*mask_len), and an address masked with it keeps its first plen bits
\* and has 0 in the others.
C36_MaskConstruction ==
    ipv4_mask_ # <<>> =>
        LET n == params.mask_len
            plen == params.plen
        IN  /\ Len(MaskBuf(plen)) <= n
            /\ Len(ipv4_mask_) = n
            /\ \A k \in 1..(8 * n) :
                  MaskBit(ipv4_mask_, k) = IF k <= plen THEN 1 ELSE 0
            /\ plen = 0 => ipv4_mask_ = Zeros(n)
            /\ plen = 8 * n => ipv4_mask_ = [i \in 1..n |-> 255]
            /\ last.input # <<>> =>
                  /\ Len(last.key) = n
                  /\ \A k \in 1..(8 * n) :
                        MaskBit(last.key, k) =
                            IF k <= plen THEN MaskBit(last.input, k) ELSE 0

\* C36 witness: the 16-byte mask of prefix length 59 has been written and
\* applied to the address of all ones.
C36_Witness ==
    /\ params = [mask_len |-> 16, plen |-> 59]
    /\ ipv4_mask_ # <<>>
    /\ last.input = [i \in 1..16 |-> 255]
    /\ last.key = <<255, 255, 255, 255, 255, 255, 255, 224,
                    0, 0, 0, 0, 0, 0, 0, 0>>

---------------------------------------------------------------------------
(* Introspection *)

(* Introspection: getCurrentTimestampBase(now) for the present time and
   for later ones (none earlier than a base of the pool), between the calls
   of check() of the credit limiters. *)

MaxIntrospectCalls == 3

IntrospectCheck ==
    /\ calls < MaxIntrospectCalls
    /\ \E a \in {Addr_A1, Addr_B} :
          Check(a, FALSE, Name_a_example, Rcode_NOERROR, TRUE, TRUE)

GetCurrentTimestampBaseAt ==
    /\ alive
    /\ \E now \in {clock} \cup {StartTime + k * (MAX_OFFSET + 1) : k \in 1..MaxLeaps} :
       \E r \in {getCurrentTimestampBase(ts_bases_, now)} :
          /\ \A b \in BaseSet(ts_bases_) : b.sec <= now
          /\ ts_bases_' = r.pool
          /\ table_' = Notified(table_, ts_bases_, r.pool)
    /\ UNCHANGED <<params, alive, ipv4_mask_, clock, calls, last, okhist, subnet_>>

NextIntrospect == IntrospectCheck \/ GetCurrentTimestampBaseAt

SpecIntrospect == InitCredit /\ [][NextIntrospect]_vars

\* C37: a step that is a call of an accessor (no call of check(), the clock
\* as it was) leaves the table as it is, leaves every entry stale or not as
\* it was, and leaves the verdict of a call of check() made next, for
\* either client, as it would have been.
C37_IntrospectionFrame ==
    [][(calls' = calls /\ clock' = clock) =>
          /\ table_' = table_
          /\ \A e \in Entries :
                Offset(ts_bases_', e, clock).stale = Offset(ts_bases_, e, clock).stale
          /\ \A a \in {Addr_A1, Addr_B} :
                check(table_, ts_bases_', a, FALSE, RRClass_IN, RRType_A,
                      Name_a_example, Rcode_NOERROR, clock).result
                = check(table_, ts_bases_, a, FALSE, RRClass_IN, RRType_A,
                        Name_a_example, Rcode_NOERROR, clock).result]_vars

---------------------------------------------------------------------------
(* Subnet4, Subnet6 and their pools (src/src/lib/dhcpsrv) *)

MaxPools == 2

\* IOAddress order: IPv4 (4 bytes) before IPv6 (16 bytes), then the bytes in
\* network order
RECURSIVE smallerEqual(_, _)
smallerEqual(a, b) ==
    IF Len(a) # Len(b) THEN Len(a) < Len(b)
    ELSE IF a = <<>> THEN TRUE
    ELSE IF a[1] # b[1] THEN a[1] < b[1]
    ELSE smallerEqual(Tail(a), Tail(b))

\* the first address of prefix/len: the bits after the first len cleared
firstAddrInPrefix(prefix, len) ==
    [i \in 1..Len(prefix) |->
        LET free == 8 - Min(8, Max(0, len - 8 * (i - 1)))
        IN  (prefix[i] \div Pow2(free)) * Pow2(free)]

\* the last address of prefix/len: the bits after the first len set
lastAddrInPrefix(prefix, len) ==
    [i \in 1..Len(prefix) |->
        LET free == 8 - Min(8, Max(0, len - 8 * (i - 1)))
        IN  (prefix[i] \div Pow2(free)) * Pow2(free) + Pow2(free) - 1]

\* Subnet::inRange(addr)
inRange(s, addr) ==
    /\ smallerEqual(firstAddrInPrefix(s.prefix_, s.prefix_len_), addr)
    /\ smallerEqual(addr, lastAddrInPrefix(s.prefix_, s.prefix_len_))

\* Pool::inRange(addr)
PoolInRange(pool, addr) ==
    smallerEqual(pool.first_, addr) /\ smallerEqual(addr, pool.last_)

\* A mutant of addPool4: the pool is added unchecked.
addPool4Unchecked(s, pool) ==
    [subnet |-> [s EXCEPT !.pools_ = Append(@, pool)], thrown |-> FALSE]

\* Subnet4::addPool4(pool): the subnet afterwards, and whether BadValue was
\* thrown
addPool4(s, pool) ==
    IF ~inRange(s, pool.first_) \/ ~inRange(s, pool.last_)
    THEN [subnet |-> s, thrown |-> TRUE]
    ELSE [subnet |-> [s EXCEPT !.pools_ = Append(@, pool)], thrown |-> FALSE]

\* Subnet6::addPool6(pool)
addPool6(s, pool) ==
    IF ~inRange(s, pool.first_) \/ ~inRange(s, pool.last_)
    THEN [subnet |-> s, thrown |-> TRUE]
    ELSE [subnet |-> [s EXCEPT !.pools_ = Append(@, pool)], thrown |-> FALSE]

\* A mutant of getPool4: the candidate is the pool looked at last.
RECURSIVE getPool4LastCandidate(_, _, _)
getPool4LastCandidate(pools, candidate, hint) ==
    IF pools = <<>> THEN candidate
    ELSE IF PoolInRange(Head(pools), hint) THEN <<Head(pools)>>
    ELSE getPool4LastCandidate(Tail(pools), <<Head(pools)>>, hint)

\* Subnet4::getPool4(hint): the loop over the pools not yet looked at, with
\* the candidate so far; a pointer is <<>> (null) or <<pool>>
RECURSIVE getPool4(_, _, _)
getPool4(pools, candidate, hint) ==
    IF pools = <<>> THEN candidate
    ELSE IF PoolInRange(Head(pools), hint) THEN <<Head(pools)>>
    ELSE getPool4(Tail(pools),
                  IF candidate = <<>> THEN <<Head(pools)>> ELSE candidate,
                  hint)

\* Subnet6::getPool6(hint)
RECURSIVE getPool6(_, _, _)
getPool6(pools, candidate, hint) ==
    IF pools = <<>> THEN candidate
    ELSE IF PoolInRange(Head(pools), hint) THEN <<Head(pools)>>
    ELSE getPool6(Tail(pools),
                  IF candidate = <<>> THEN <<Head(pools)>> ELSE candidate,
                  hint)

\* Subnet4::inPool(addr)
inPool(s, addr) ==
    IF ~inRange(s, addr) THEN FALSE
    ELSE \E i \in 1..Len(s.pools_) : PoolInRange(s.pools_[i], addr)

\* Addresses below, in and above 192.0.2.0/24 and 2001:db8:1::/48, and the
\* default hint "::".
Addrs4 ==
    {<<192, 0, 1, 255>>, <<192, 0, 2, 0>>, <<192, 0, 2, 100>>,
     <<192, 0, 2, 255>>, <<192, 0, 3, 0>>}

Addrs6 ==
    {<<32, 1, 13, 184, 0, h, 0, 0, 0, 0, 0, 0, 0, 0, 0, l>> :
        h \in {0, 1, 2}, l \in {0, 9}}

\* The subnets Subnet4(192.0.2.77/24) and Subnet6(2001:db8:1::9/48) as
\* constructed: no pools.
InitSubnet ==
    /\ subnet_ \in {[prefix_ |-> <<192, 0, 2, 77>>, prefix_len_ |-> 24,
                     pools_ |-> <<>>, ret |-> <<>>],
                    [prefix_ |-> <<32, 1, 13, 184, 0, 1, 0, 0, 0, 0, 0, 0, 0, 0, 0, 9>>,
                     prefix_len_ |-> 48, pools_ |-> <<>>, ret |-> <<>>]}
    /\ params = <<>>
    /\ alive = FALSE
    /\ ipv4_mask_ = <<>>
    /\ table_ = RRLTable(0)
    /\ ts_bases_ = TimestampBases(StartTime)
    /\ clock = StartTime
    /\ calls = 0
    /\ last = NoCall
    /\ okhist = [oks |-> <<>>, lastcall |-> -1, hist |-> <<>>]

\* addPool4 / addPool6 with a pool the constructors Pool4(first, last) /
\* Pool6(type, first, last) let through (first <= last, of the family)
AddPool ==
    /\ Len(subnet_.pools_) < MaxPools
    /\ \E f, l \in IF Len(subnet_.prefix_) = 4 THEN Addrs4 ELSE Addrs6 :
          /\ smallerEqual(f, l)
          /\ \E pool \in {[first_ |-> f, last_ |-> l]} :
             \E r \in {IF Len(subnet_.prefix_) = 4
                       THEN addPool4(subnet_, pool)
                       ELSE addPool6(subnet_, pool)} :
                subnet_' = [r.subnet EXCEPT !.ret =
                               [op |-> "addPool", arg |-> pool,
                                thrown |-> r.thrown,
                                before |-> subnet_.pools_]]
    /\ UNCHANGED <<params, alive, ipv4_mask_, table_, ts_bases_, clock, calls,
                   last, okhist>>

\* getPool4(hint) / getPool6(hint)
GetPool ==
    /\ \E hint \in Addrs4 \cup Addrs6 \cup {[i \in 1..16 |-> 0]} :
          subnet_' = [subnet_ EXCEPT !.ret =
                         [op |-> "getPool", arg |-> hint,
                          value |-> IF Len(subnet_.prefix_) = 4
                                    THEN getPool4(subnet_.pools_, <<>>, hint)
                                    ELSE getPool6(subnet_.pools_, <<>>, hint)]]
    /\ UNCHANGED <<params, alive, ipv4_mask_, table_, ts_bases_, clock, calls,
                   last, okhist>>

\* Subnet4::inPool(addr)
InPool ==
    /\ Len(subnet_.prefix_) = 4
    /\ \E addr \in Addrs4 \cup {<<32, 1, 13, 184, 0, 1, 0, 0, 0, 0, 0, 0, 0, 0, 0, 9>>} :
          subnet_' = [subnet_ EXCEPT !.ret =
                         [op |-> "inPool", arg |-> addr,
                          value |-> inPool(subnet_, addr)]]
    /\ UNCHANGED <<params, alive, ipv4_mask_, table_, ts_bases_, clock, calls,
                   last, okhist>>

NextSubnet == AddPool \/ GetPool \/ InPool

SpecSubnet == InitSubnet /\ [][NextSubnet]_vars

\* addr has the first prefix_len_ bits of the subnet's prefix and is of its
\* family
InPrefix(s, addr) ==
    /\ Len(addr) = Len(s.prefix_)
    /\ \A k \in 1..s.prefix_len_ : MaskBit(addr, k) = MaskBit(s.prefix_, k)

C39_PoolSelectionByHint ==
    LET s == subnet_
    IN  (s.ret # <<>> /\ s.ret.op = "getPool") =>
            LET holds == {i \in 1..Len(s.pools_) :
                            /\ smallerEqual(s.pools_[i].first_, s.ret.arg)
                            /\ smallerEqual(s.ret.arg, s.pools_[i].last_)}
            IN  /\ holds # {} =>
                      s.ret.value = <<s.pools_[CHOOSE i \in holds :
                                                 \A j \in holds : i <= j]>>
                /\ (holds = {} /\ s.pools_ # <<>>) => s.ret.value = <<s.pools_[1]>>
                /\ s.ret.value = <<>> <=> s.pools_ = <<>>

\* C39 witness: of two pools the second holds the hint 192.0.2.255 and was
\* returned for it.
C39_Witness ==
    /\ subnet_.ret # <<>> /\ subnet_.ret.op = "getPool"
    /\ subnet_.ret.arg = <<192, 0, 2, 255>>
    /\ Len(subnet_.pools_) = 2
    /\ subnet_.pools_[1] = [first_ |-> <<192, 0, 2, 0>>, last_ |-> <<192, 0, 2, 100>>]
    /\ subnet_.ret.value = <<subnet_.pools_[2]>>

====
